---- MODULE Spec2Model ----
(***************************************************************************)
(* lib/SILGen/ResultPlan.cpp: the result plans of an apply and the builder *)
(* that makes them.  ResultPlanBuilder::build walks the abstraction        *)
(* pattern and the substituted type, consumes the callee's result          *)
(* descriptors front to back, collects the indirect-result addresses and   *)
(* returns a tree of plan nodes; after the call, ResultPlan::finish walks  *)
(* that tree against the direct results.                                   *)
(*                                                                         *)
(* The two recursions are run on an explicit call stack, one action per    *)
(* step of the code.  What the code reads from its collaborators (an       *)
(* Initialization's capabilities, TypeLowering::isAddressOnly, whether     *)
(* emitOrigToSubstValue emitted into its context) is an input of the       *)
(* action that reads it; each of them is read at most once per object.     *)
(***************************************************************************)
EXTENDS Naturals, Sequences, FiniteSets

\* Bound of the enumerated inputs: the number of nodes (tuples and leaves) of
\* the abstraction pattern.
MaxNodes == 3

VARIABLES
  origType,            \* AbstractionPattern given to the root build
  substType,           \* CanType given to the root build and the root finish
  descriptors,         \* the callee's results, as allResults was constructed
  rootInit,            \* the Initialization given to the root build (0: null)
  rep,                 \* ResultPlanBuilder::rep
  allResults,          \* ResultPlanBuilder::allResults, the unconsumed results
  indirectResultAddrs, \* ResultPlanBuilder::indirectResultAddrs
  inits,               \* every Initialization object, temporaries included
  plans,               \* every ResultPlan object
  stack,               \* the call stack of build / finish
  ret,                 \* the value a call has just returned
  directResults,       \* the ArrayRef<ManagedValue> cursor given to finish
  phase,               \* "build", "built", "finish", "done", "abort"
  log                  \* the calls made so far, in order

vars == <<origType, substType, descriptors, rootInit, rep, allResults,
          indirectResultAddrs, inits, plans, stack, ret, directResults,
          phase, log>>

-----------------------------------------------------------------------------
\* Types: the tuple structure of an AbstractionPattern or of a CanType.

Leaf == [tup |-> FALSE, elts |-> <<>>]

Tuple(es) == [tup |-> TRUE, elts |-> es]

RECURSIVE SumSeq(_)
SumSeq(s) == IF s = <<>> THEN 0 ELSE Head(s) + SumSeq(Tail(s))

\* The number of non-tuple leaves of a pattern, i.e. of results it stands for.
RECURSIVE NumLeaves(_)
NumLeaves(t) ==
  IF ~t.tup THEN 1
  ELSE SumSeq([i \in 1..Len(t.elts) |-> NumLeaves(t.elts[i])])

\* The leaves of t that come before its element i in the flattening.
LeavesBefore(t, i) == SumSeq([j \in 1..(i - 1) |-> NumLeaves(t.elts[j])])

\* The number of nodes of a type.
RECURSIVE Size(_)
Size(t) == 1 + SumSeq([i \in 1..Len(t.elts) |-> Size(t.elts[i])])

\* The types of at most n nodes, and the element lists of at most n nodes.
RECURSIVE TypesUpTo(_), ElementsUpTo(_)
TypesUpTo(n) ==
  IF n = 0 THEN {} ELSE {Leaf} \cup {Tuple(es) : es \in ElementsUpTo(n - 1)}

ElementsUpTo(n) ==
  {<<>>} \cup UNION {{<<t>> \o es : es \in ElementsUpTo(n - Size(t))} :
                     t \in TypesUpTo(n)}

Patterns == TypesUpTo(MaxNodes)

\* The substituted types of a pattern have its tuple structure, except that
\* under an opaque pattern the substituted type may itself be a tuple:
\* SubstOf(o, atLeaf) is o with atLeaf in the place of every leaf.
RECURSIVE SubstOf(_, _)
SubstOf(o, atLeaf) ==
  IF ~o.tup THEN atLeaf
  ELSE Tuple([i \in 1..Len(o.elts) |-> SubstOf(o.elts[i], atLeaf)])

SubstsOf(o) == {SubstOf(o, Leaf), SubstOf(o, Tuple(<<Leaf, Leaf>>))}

\* SIL types, as far as hasAbstractionDifference tells them apart: "S" is the
\* lowered substituted type of the result, "O" a type that differs from it.
Reps == {"S", "O"}

hasAbstractionDifference(a, b) == a # b

Descriptors == [indirect : BOOLEAN, ty : Reps]

FunctionReps == {"native", "c"}

-----------------------------------------------------------------------------
\* Objects.

\* An Initialization.  kind: "dest" (the caller's), "elt" (made by
\* splitIntoTupleElements), "temp" (a TemporaryInitialization of emitTemporary).
\* canSplit and addr are what canSplitIntoTupleElements and
\* getAddressForInPlaceInitialization answer, "?" until the code asks.
\* finished counts the finishInitialization calls; content is what has been
\* stored in it; cleanup is the state of a temporary's cleanup; taken tells
\* that its content was moved out.
NewInit(kind, ty, parent) ==
  [kind |-> kind, ty |-> ty, parent |-> parent, canSplit |-> "?", addr |-> "?",
   finished |-> 0, content |-> <<>>, cleanup |-> "none", taken |-> FALSE]

\* A ResultPlan object.  leaf is the place of the node's result among the
\* leaves of the root pattern (0 for a node that stands for a tuple).
PlanNode(kind, init, temporary, subPlan, eltPlans, eltInits, leaf) ==
  [kind |-> kind, init |-> init, temporary |-> temporary, subPlan |-> subPlan,
   eltPlans |-> eltPlans, eltInits |-> eltInits, rep |-> rep, leaf |-> leaf]

\* A call of build, of buildForTuple or of a plan's constructor.  off is the
\* number of leaves of the root pattern that come before orig.
BuildFrame(fn, init, orig, subst, off) ==
  [fn |-> fn, init |-> init, orig |-> orig, subst |-> subst, off |-> off,
   i |-> 1, eltPlans |-> <<>>, eltInits |-> <<>>, temp |-> 0]

\* RValue() is used; an RValue made of values is not.
UsedRValue == [used |-> TRUE, vals |-> <<>>]

\* RValue(substType): a tuple RValue to which the elements are yet to be added.
EmptyTupleRValue == [used |-> FALSE, vals |-> <<>>]

\* A call of ResultPlan::finish.
FinishFrame(node, subst) ==
  [fn |-> "finish", node |-> node, subst |-> subst, i |-> 1,
   rv |-> EmptyTupleRValue]   \* tupleRV, line 188

NoRet == [set |-> FALSE, plan |-> 0, rv |-> UsedRValue]

RetPlan(p) == [set |-> TRUE, plan |-> p, rv |-> UsedRValue]

RetRValue(rv) == [set |-> TRUE, plan |-> 0, rv |-> rv]

Event(ev, a, b) == [ev |-> ev, a |-> a, b |-> b]

Top == stack[Len(stack)]

Pop == SubSeq(stack, 1, Len(stack) - 1)

\* The place in the callee's results of the front of allResults.
FrontIndex == Len(descriptors) - Len(allResults) + 1

-----------------------------------------------------------------------------
\* The state when ResultPlanBuilder::build is called on the results of an
\* apply: one descriptor per leaf of the pattern.

InitOf(o, s, ds, ri, r) ==
  /\ origType = o
  /\ substType = s
  /\ descriptors = ds
  /\ rootInit = ri
  /\ rep = r
  /\ allResults = ds
  /\ indirectResultAddrs = <<>>
  /\ inits = IF ri = 0 THEN <<>> ELSE <<NewInit("dest", "S", 0)>>
  /\ plans = <<>>
  /\ stack = <<BuildFrame("build", ri, o, s, 0)>>
  /\ ret = NoRet
  /\ directResults = <<>>
  /\ phase = "build"
  /\ log = <<>>

Init ==
  \E o \in Patterns : \E s \in SubstsOf(o) :
    \E ds \in [1..NumLeaves(o) -> Descriptors] :
      \E ri \in {0, 1} : \E r \in FunctionReps :
        InitOf(o, s, ds, ri, r)

-----------------------------------------------------------------------------
\* ResultPlanBuilder::build

Building == phase = "build" /\ stack # <<>> /\ ~ret.set

\* What the caller on top of st gets when its callee returns plan p: a
\* constructor's loop stores it (eltPlans.push_back, lines 182 and 228) and
\* goes on; buildForTuple holds it as its sub-plan.
ReturnPlan(st, p) ==
  IF st # <<>> /\ st[Len(st)].fn \in {"TupleRValueResultPlan",
                                       "TupleInitializationResultPlan"}
  THEN [stack |-> [st EXCEPT ![Len(st)].eltPlans = Append(@, p),
                             ![Len(st)].i = @ + 1],
        ret |-> NoRet]
  ELSE [stack |-> st, ret |-> RetPlan(p)]

\* Destructures going by the substituted type.
DestructuresSubst(orig, subst) == subst.tup

\* build, line 261: a tuple pattern goes to buildForTuple, any other pattern
\* is one result.
Destructures(orig, subst) == orig.tup

\* UseInPlace without the test for an abstraction difference.
UseInPlaceAnyType(init, initAddr, result) ==
  /\ init # 0
  /\ initAddr # "none"
  /\ result.indirect

\* UseInPlace without the test that the result is indirect.
UseInPlaceAnyResult(init, initAddr, result) ==
  /\ init # 0
  /\ initAddr # "none"
  /\ ~hasAbstractionDifference(initAddr, result.ty)

\* build, lines 275-277: the result can be evaluated in place.
UseInPlace(init, initAddr, result) ==
  /\ init # 0
  /\ initAddr # "none"
  /\ result.indirect
  /\ ~hasAbstractionDifference(initAddr, result.ty)

\* NeedsTemporary with a temporary made for every result.
NeedsTemporaryAlways(result) == TRUE

\* build, line 292: the result needs a temporary.
NeedsTemporary(result) == result.indirect

\* What getAddressForInPlaceInitialization may answer: no address, or the
\* address of the initialization, which holds a value of the substituted
\* type.  It is not called on a null Initialization.
AddrAnswers(init) == IF init = 0 THEN {"none"} ELSE {"none", "S"}

\* SetAddr that also finishes the initialization it asks.
SetAddrFinishing(is, init, a) ==
  IF init = 0 THEN is
  ELSE [is EXCEPT ![init].addr = a, ![init].finished = @ + 1]

SetAddr(is, init, a) == IF init = 0 THEN is ELSE [is EXCEPT ![init].addr = a]

\* build, lines 266-280: the next result goes straight into the address of init.
BuildInPlace ==
  /\ Building
  /\ Top.fn = "build"
  /\ ~Destructures(Top.orig, Top.subst)
  /\ allResults # <<>>
  /\ \E a \in AddrAnswers(Top.init) :
       LET result == Head(allResults)
           node == PlanNode("InPlace", Top.init, 0, 0, <<>>, <<>>, Top.off + 1)
       IN /\ UseInPlace(Top.init, a, result)
          /\ allResults' = Tail(allResults)
          /\ inits' = SetAddr(inits, Top.init, a)
          /\ indirectResultAddrs' = Append(indirectResultAddrs, Top.init)
          /\ plans' = Append(plans, node)
          /\ ret' = ReturnPlan(Pop, Len(plans) + 1).ret
          /\ stack' = ReturnPlan(Pop, Len(plans) + 1).stack
          /\ log' = log \o <<Event("pop", FrontIndex, Top.off + 1),
                              Event("addr", Top.init, Top.off + 1)>>
  /\ UNCHANGED <<origType, substType, descriptors, rootInit, rep,
                 directResults, phase>>

\* build, lines 266-299: the next result is claimed by a ScalarResultPlan,
\* out of a temporary of its own if it is indirect.
BuildScalar ==
  /\ Building
  /\ Top.fn = "build"
  /\ ~Destructures(Top.orig, Top.subst)
  /\ allResults # <<>>
  /\ \E a \in AddrAnswers(Top.init) :
       LET result == Head(allResults)
           queried == SetAddr(inits, Top.init, a)
           tmp == IF NeedsTemporary(result) THEN Len(inits) + 1 ELSE 0
           node == PlanNode("Scalar", Top.init, tmp, 0, <<>>, <<>>, Top.off + 1)
       IN /\ ~UseInPlace(Top.init, a, result)
          /\ allResults' = Tail(allResults)
          /\ inits' = IF tmp = 0 THEN queried
                      ELSE Append(queried, NewInit("temp", result.ty, 0))
          /\ indirectResultAddrs' = IF tmp = 0 THEN indirectResultAddrs
                                    ELSE Append(indirectResultAddrs, tmp)
          /\ plans' = Append(plans, node)
          /\ ret' = ReturnPlan(Pop, Len(plans) + 1).ret
          /\ stack' = ReturnPlan(Pop, Len(plans) + 1).stack
          /\ log' = log \o <<Event("pop", FrontIndex, Top.off + 1)>>
                        \o (IF tmp = 0 THEN <<>>
                            ELSE <<Event("temp", tmp, Top.off + 1),
                                   Event("addr", tmp, Top.off + 1)>>)
  /\ UNCHANGED <<origType, substType, descriptors, rootInit, rep,
                 directResults, phase>>

-----------------------------------------------------------------------------
\* ResultPlanBuilder::buildForTuple and the constructors it runs

\* What canSplitIntoTupleElements may answer.  A TemporaryInitialization is a
\* single buffer, which splits into the addresses of its elements.
CanSplitAnswers(init) ==
  IF inits[init].kind = "temp" THEN {TRUE} ELSE BOOLEAN

Answer(b) == IF b THEN "yes" ELSE "no"

Bit(b) == IF b THEN 1 ELSE 0

\* build, lines 261-262, calls buildForTuple on an original tuple and returns
\* what it returns.
InBuildForTuple ==
  \/ Top.fn = "buildForTuple"
  \/ Top.fn = "build" /\ Destructures(Top.orig, Top.subst) /\ Top.subst.tup

\* TupleCase with the address-only test the wrong way round.
TupleCaseSwapped(init, canSplit, addressOnly) ==
  IF init = 0 THEN "TupleRValue"
  ELSE IF canSplit THEN "TupleInit"
  ELSE IF addressOnly THEN "FromRValue"
  ELSE "FromTemp"

\* buildForTuple, lines 307-342: the plan made for a tuple.
TupleCase(init, canSplit, addressOnly) ==
  IF init = 0 THEN "TupleRValue"
  ELSE IF canSplit THEN "TupleInit"
  ELSE IF addressOnly THEN "FromTemp"
  ELSE "FromRValue"

\* buildForTuple, lines 307-309: no initialization, build the components.
BuildForTupleRValue ==
  /\ Building
  /\ InBuildForTuple
  /\ TupleCase(Top.init, FALSE, FALSE) = "TupleRValue"
  /\ stack' = Append(Pop, [Top EXCEPT !.fn = "TupleRValueResultPlan"])
  /\ UNCHANGED <<origType, substType, descriptors, rootInit, rep, allResults,
                 indirectResultAddrs, inits, plans, ret, directResults, phase,
                 log>>

\* buildForTuple, lines 314-317, and TupleInitializationResultPlan, lines
\* 219-220: split the initialization, one sub-initialization per element of
\* the substituted tuple type.
BuildForTupleSplit ==
  /\ Building
  /\ InBuildForTuple
  /\ Top.init # 0
  /\ \E cs \in CanSplitAnswers(Top.init) :
       LET n == Len(Top.subst.elts)
           first == Len(inits)
           eltInits == [k \in 1..n |-> first + k]
       IN /\ TupleCase(Top.init, cs, FALSE) = "TupleInit"
          /\ inits' = [inits EXCEPT ![Top.init].canSplit = Answer(cs)]
                        \o [k \in 1..n |-> NewInit("elt", "S", Top.init)]
          /\ stack' = Append(Pop, [Top EXCEPT
                                     !.fn = "TupleInitializationResultPlan",
                                     !.eltInits = eltInits])
          /\ log' = Append(log, Event("split", Top.init, n))
  /\ UNCHANGED <<origType, substType, descriptors, rootInit, rep, allResults,
                 indirectResultAddrs, plans, ret, directResults, phase>>

\* SubPlanTarget with the sub-plan built against the initialization that
\* could not be split.
SubPlanTargetSame(init, temporary) == init

\* buildForTuple, line 330: the sub-plan emits into the temporary.
SubPlanTarget(init, temporary) == temporary

\* buildForTuple, lines 324-330: the initialization cannot be split and the
\* tuple is address-only; emit into one temporary for the whole tuple.
BuildForTupleTemporary ==
  /\ Building
  /\ InBuildForTuple
  /\ Top.init # 0
  /\ \E cs \in CanSplitAnswers(Top.init) : \E ao \in BOOLEAN :
       LET tmp == Len(inits) + 1
       IN /\ TupleCase(Top.init, cs, ao) = "FromTemp"
          /\ inits' = Append([inits EXCEPT ![Top.init].canSplit = Answer(cs)],
                             NewInit("temp", "S", 0))
          /\ stack' = Pop \o <<[Top EXCEPT !.fn = "fromTemporary", !.temp = tmp],
                                BuildFrame("buildForTuple",
                                           SubPlanTarget(Top.init, tmp),
                                           Top.orig, Top.subst, Top.off)>>
          /\ log' = log \o <<Event("isAddressOnly", Top.init, Bit(ao)),
                              Event("temp", tmp, 0)>>
  /\ UNCHANGED <<origType, substType, descriptors, rootInit, rep, allResults,
                 indirectResultAddrs, plans, ret, directResults, phase>>

\* buildForTuple, line 338: the initialization cannot be split and the tuple
\* is loadable; build a sub-plan that does not know the initialization.
BuildForTupleNoContext ==
  /\ Building
  /\ InBuildForTuple
  /\ Top.init # 0
  /\ \E cs \in CanSplitAnswers(Top.init) : \E ao \in BOOLEAN :
       /\ TupleCase(Top.init, cs, ao) = "FromRValue"
       /\ inits' = [inits EXCEPT ![Top.init].canSplit = Answer(cs)]
       /\ stack' = Pop \o <<[Top EXCEPT !.fn = "fromRValue"],
                             BuildFrame("buildForTuple", 0, Top.orig, Top.subst,
                                        Top.off)>>
       /\ log' = Append(log, Event("isAddressOnly", Top.init, Bit(ao)))
  /\ UNCHANGED <<origType, substType, descriptors, rootInit, rep, allResults,
                 indirectResultAddrs, plans, ret, directResults, phase>>

InConstructor ==
  Top.fn \in {"TupleRValueResultPlan", "TupleInitializationResultPlan"}

\* ElementAt going through the elements from the last to the first.
ElementAtReversed(i) == Len(Top.subst.elts) + 1 - i

\* The element the constructors' loops build at their step i (lines 179 and
\* 224 go through the elements in order).
ElementAt(i) == i

\* TupleRValueResultPlan, lines 179-182, and TupleInitializationResultPlan,
\* lines 224-228: the loop calls build for the next element.
ConstructorBuildElement ==
  /\ Building
  /\ InConstructor
  /\ Top.i <= Len(Top.subst.elts)
  /\ ElementAt(Top.i) <= Len(Top.orig.elts)
  /\ LET e == ElementAt(Top.i)
         eltInit == IF Top.fn = "TupleInitializationResultPlan"
                    THEN Top.eltInits[e] ELSE 0
     IN stack' = Append(stack, BuildFrame("build", eltInit, Top.orig.elts[e],
                                          Top.subst.elts[e],
                                          Top.off + LeavesBefore(Top.orig, e)))
  /\ UNCHANGED <<origType, substType, descriptors, rootInit, rep, allResults,
                 indirectResultAddrs, inits, plans, ret, directResults, phase,
                 log>>

\* Lines 308 and 315-316: the constructor is through, the plan is returned.
ConstructorReturn ==
  /\ Building
  /\ InConstructor
  /\ Top.i > Len(Top.subst.elts)
  /\ LET node == IF Top.fn = "TupleRValueResultPlan"
                 THEN PlanNode("TupleRValue", 0, 0, 0, Top.eltPlans, <<>>, 0)
                 ELSE PlanNode("TupleInit", Top.init, 0, 0, Top.eltPlans,
                               Top.eltInits, 0)
     IN /\ plans' = Append(plans, node)
        /\ ret' = ReturnPlan(Pop, Len(plans) + 1).ret
        /\ stack' = ReturnPlan(Pop, Len(plans) + 1).stack
  /\ UNCHANGED <<origType, substType, descriptors, rootInit, rep, allResults,
                 indirectResultAddrs, inits, directResults, phase, log>>

\* buildForTuple, lines 333-334: wrap the sub-plan and the temporary.
WrapFromTemporary ==
  /\ phase = "build" /\ stack # <<>> /\ ret.set
  /\ Top.fn = "fromTemporary"
  /\ plans' = Append(plans, PlanNode("FromTemp", Top.init, Top.temp, ret.plan,
                                     <<>>, <<>>, 0))
  /\ ret' = ReturnPlan(Pop, Len(plans) + 1).ret
  /\ stack' = ReturnPlan(Pop, Len(plans) + 1).stack
  /\ UNCHANGED <<origType, substType, descriptors, rootInit, rep, allResults,
                 indirectResultAddrs, inits, directResults, phase, log>>

\* buildForTuple, lines 341-342: wrap the sub-plan.
WrapFromRValue ==
  /\ phase = "build" /\ stack # <<>> /\ ret.set
  /\ Top.fn = "fromRValue"
  /\ plans' = Append(plans, PlanNode("FromRValue", Top.init, 0, ret.plan,
                                     <<>>, <<>>, 0))
  /\ ret' = ReturnPlan(Pop, Len(plans) + 1).ret
  /\ stack' = ReturnPlan(Pop, Len(plans) + 1).stack
  /\ UNCHANGED <<origType, substType, descriptors, rootInit, rep, allResults,
                 indirectResultAddrs, inits, directResults, phase, log>>

\* The root build returns its plan to the caller.
BuildReturn ==
  /\ phase = "build" /\ stack = <<>> /\ ret.set
  /\ phase' = "built"
  /\ UNCHANGED <<origType, substType, descriptors, rootInit, rep, allResults,
                 indirectResultAddrs, inits, plans, stack, ret, directResults,
                 log>>

BuildNext ==
  \/ BuildInPlace
  \/ BuildScalar
  \/ BuildForTupleRValue
  \/ BuildForTupleSplit
  \/ BuildForTupleTemporary
  \/ BuildForTupleNoContext
  \/ ConstructorBuildElement
  \/ ConstructorReturn
  \/ WrapFromTemporary
  \/ WrapFromRValue
  \/ BuildReturn

\* build alone, run to its return: a started build keeps running.
SpecBuild == Init /\ [][BuildNext]_vars /\ WF_vars(BuildNext)

-----------------------------------------------------------------------------
\* The call.  The callee returns one value per direct result, in the order of
\* its results, and stores each indirect result through the address it was
\* passed for it, in the order of indirectResultAddrs.

\* The value the callee produces for its result k.  temp names the temporary
\* whose cleanup it is under, addr tells that it is that buffer's address.
Produced(k) ==
  [idx |-> k, ty |-> descriptors[k].ty, conv |-> "none", addr |-> FALSE,
   temp |-> 0]

\* The results among the first n that are direct (or indirect), in order.
RECURSIVE ResultsOfKind(_, _)
ResultsOfKind(n, indirect) ==
  IF n = 0 THEN <<>>
  ELSE ResultsOfKind(n - 1, indirect)
         \o (IF descriptors[n].indirect = indirect THEN <<n>> ELSE <<>>)

\* missing is the number of values the direct-results list lacks at its end.
EmitCallWith(missing) ==
  /\ phase = "built"
  /\ LET all == ResultsOfKind(Len(descriptors), FALSE)
         direct == SubSeq(all, 1, Len(all) - missing)
         indirect == ResultsOfKind(Len(descriptors), TRUE)
         written(a) == {i \in 1..Len(indirectResultAddrs) :
                         indirectResultAddrs[i] = a /\ i <= Len(indirect)}
     IN /\ directResults' = [j \in 1..Len(direct) |-> Produced(direct[j])]
        /\ inits' = [a \in 1..Len(inits) |->
                       IF written(a) = {} THEN inits[a]
                       ELSE [inits[a] EXCEPT !.content =
                               <<Produced(indirect[CHOOSE i \in written(a) : TRUE])>>]]
  /\ stack' = <<FinishFrame(ret.plan, substType)>>
  /\ ret' = NoRet
  /\ phase' = "finish"
  /\ log' = log \o <<Event("call", 0, 0), Event("enter", ret.plan, 0)>>
  /\ UNCHANGED <<origType, substType, descriptors, rootInit, rep, allResults,
                 indirectResultAddrs, plans>>

\* The direct results hold one value per direct result of the callee.
EmitCall == EmitCallWith(0)

-----------------------------------------------------------------------------
\* ResultPlan::finish

Finishing == phase = "finish" /\ stack # <<>> /\ ~ret.set

Node == plans[Top.node]

\* Initialization::finishInitialization
finishInitialization(is, init) ==
  [is EXCEPT ![init].finished = @ + 1,
             ![init].cleanup = IF is[init].kind = "temp" THEN "active" ELSE @]

\* A managed value is forwarded: the cleanup it is under is disabled, and what
\* the buffer held is no longer the buffer's.
Forward(is, v) ==
  IF v.temp = 0 THEN is
  ELSE [is EXCEPT ![v.temp].cleanup = "dead", ![v.temp].taken = TRUE]

RECURSIVE ForwardAll(_, _)
ForwardAll(is, vs) ==
  IF vs = <<>> THEN is ELSE ForwardAll(Forward(is, Head(vs)), Tail(vs))

\* A value that has been forwarded is nobody's buffer address any more.
Owned(v) == [v EXCEPT !.addr = FALSE, !.temp = 0]

\* Initialization::copyOrInitValueInto with isInit: the values are moved in.
copyOrInitValueInto(is, init, vs) ==
  [ForwardAll(is, vs) EXCEPT
     ![init].content = @ \o [k \in 1..Len(vs) |-> Owned(vs[k])]]

\* StoreAndFinish without the finishInitialization.
StoreOnly(is, init, vs) == copyOrInitValueInto(is, init, vs)

\* Lines 108-109, 140-141 and 162-163: the value is moved into the
\* initialization, which is then finished.
StoreAndFinish(is, init, vs) ==
  finishInitialization(copyOrInitValueInto(is, init, vs), init)

\* The calls StoreAndFinish makes for plan node, in order.
StoreEvents(init, node) ==
  <<Event("copy", init, node), Event("finishInit", init, node)>>

\* RValue(SGF, loc, substType, value): the value, not used.
RValueOf(value) == [used |-> FALSE, vals |-> <<value>>]

\* RValue::addElement
addElement(rv, elt) == [rv EXCEPT !.vals = @ \o elt.vals]

\* RValue::getAsSingleValue
getAsSingleValue(rv) == rv.vals

\* emitOrigToSubstValue emitting into the initialization of its context: it
\* stores the value there and finishes the initialization.
EmitIntoContext(is, init, value) ==
  finishInitialization([is EXCEPT ![init].content = Append(@, value)], init)

\* ScalarResult that always hands the value back.
ScalarResultValue(init, value) == RValueOf(value)

\* ScalarResult that never hands the value back.
ScalarResultUsed(init, value) == UsedRValue

\* ScalarResultPlan::finish, lines 107-115: what finish returns for value.
ScalarResult(init, value) ==
  IF init # 0 THEN UsedRValue ELSE RValueOf(value)

\* ElementsDone leaving the loop one element early.
ElementsDoneEarly(i, n) == i >= n

\* The loops of the tuple plans' finish are through (lines 193 and 236).
ElementsDone(i, n) == i > n

\* What the caller on top of st gets when its callee's finish returns rv: the
\* loop of TupleRValueResultPlan::finish adds it to tupleRV (line 196), the
\* loop of TupleInitializationResultPlan::finish asserts it is used (line
\* 239), the other callers hold it.  ok is FALSE when the assertion fails.
ReturnRValue(st, rv) ==
  LET kind == IF st = <<>> THEN "" ELSE plans[st[Len(st)].node].kind
  IN IF kind = "TupleRValue"
     THEN [stack |-> [st EXCEPT ![Len(st)].rv = addElement(@, rv),
                                ![Len(st)].i = @ + 1],
           ret |-> NoRet, ok |-> TRUE]
     ELSE IF kind = "TupleInit"
     THEN [stack |-> [st EXCEPT ![Len(st)].i = @ + 1], ret |-> NoRet,
           ok |-> rv.used]
     ELSE [stack |-> st, ret |-> RetRValue(rv), ok |-> TRUE]

AfterReturn(ok) == IF ok THEN "finish" ELSE "abort"

\* InPlaceInitializationResultPlan::finish, lines 35-39.
FinishInPlace ==
  /\ Finishing
  /\ Node.kind = "InPlace"
  /\ LET r == ReturnRValue(Pop, UsedRValue)
     IN /\ stack' = r.stack
        /\ ret' = r.ret
        /\ phase' = AfterReturn(r.ok)
  /\ inits' = finishInitialization(inits, Node.init)
  /\ log' = log \o <<Event("finishInit", Node.init, Top.node),
                      Event("exit", Top.node, 0)>>
  /\ UNCHANGED <<origType, substType, descriptors, rootInit, rep, allResults,
                 indirectResultAddrs, plans, directResults>>

\* ScalarTransform without the test for a C-language representation.
ScalarTransformNative(r, valueTy) ==
  IF ~hasAbstractionDifference(valueTy, "S") THEN "none" ELSE "reabstract"

\* ScalarTransform without the test for an abstraction difference.
ScalarTransformAlways(r, valueTy) == IF r = "c" THEN "bridge" ELSE "reabstract"

\* ScalarResultPlan::finish, lines 88-98: the conversion the value needs.
ScalarTransform(r, valueTy) ==
  IF ~hasAbstractionDifference(valueTy, "S") THEN "none"
  ELSE IF r = "c" THEN "bridge"
  ELSE "reabstract"

\* SILGenFunction::emitBridgedToNativeValue and emitOrigToSubstValue: the
\* value in the representation of the substituted type.
Converted(v, how) == [Owned(v) EXCEPT !.ty = "S", !.conv = how]

\* TypeLowering::isAddressOnly is read only of a result in a temporary.
AddressOnlyAnswers(n) == IF n.temporary = 0 THEN {FALSE} ELSE BOOLEAN

\* emitOrigToSubstValue may emit into the initialization of its context, and
\* then finishes it and returns a value that isInContext.
InContextAnswers(n, how) ==
  IF how = "reabstract" /\ n.init # 0 THEN BOOLEAN ELSE {FALSE}

\* LoadTake of the value without forwarding its cleanup.
LoadKeepCleanup(is, v) == [is EXCEPT ![v.temp].taken = TRUE]

\* ScalarResultPlan::finish, lines 75-77: load [take] of the forwarded value.
LoadTake(is, v) == Forward(is, v)

\* ReturnsEarly with no return after emitOrigToSubstValue.
ReturnsEarlyNever(inContext) == FALSE

\* ScalarResultPlan::finish, lines 101-102: return if the value is in context.
ReturnsEarly(inContext) == inContext

\* ScalarResultPlan::finish, lines 58-116.
FinishScalar ==
  /\ Finishing
  /\ Node.kind = "Scalar"
  /\ Node.temporary = 0 => directResults # <<>>
  /\ \E ao \in AddressOnlyAnswers(Node) :
       LET n == Node
           t == n.temporary
           \* lines 68-84: claim the value
           is1 == IF t # 0 THEN finishInitialization(inits, t) ELSE inits
           address == [Head(inits[t].content) EXCEPT !.addr = TRUE, !.temp = t]
           is2 == IF t # 0 /\ ~ao THEN LoadTake(is1, address) ELSE is1
           value == IF t = 0 THEN Head(directResults)
                    ELSE IF ao THEN address ELSE Owned(address)
           claimed == IF t # 0
                      THEN <<Event("finishInit", t, Top.node),
                             Event("claim", Top.node, value.idx)>>
                      ELSE <<Event("take", Top.node, value.idx)>>
           \* lines 88-104: reabstract
           how == ScalarTransform(n.rep, value.ty)
       IN \E inContext \in InContextAnswers(n, how) :
            LET is3 == IF how = "none" THEN is2 ELSE Forward(is2, value)
                value2 == IF how = "none" THEN value ELSE Converted(value, how)
                converted == IF how = "none" THEN <<>>
                             ELSE <<Event(how, Top.node, value.idx)>>
                \* lines 100-102 and 107-115
                emitted == IF inContext
                           THEN EmitIntoContext(is3, n.init, value2)
                           ELSE is3
                is4 == IF ReturnsEarly(inContext)
                       THEN emitted
                       ELSE IF n.init # 0
                       THEN StoreAndFinish(emitted, n.init, <<value2>>)
                       ELSE emitted
                stored == (IF inContext
                           THEN <<Event("emitInto", n.init, value.idx),
                                  Event("finishInit", n.init, 0)>>
                           ELSE <<>>)
                          \o (IF ~ReturnsEarly(inContext) /\ n.init # 0
                              THEN StoreEvents(n.init, Top.node)
                              ELSE <<>>)
                rv == ScalarResult(n.init, value2)
                r == ReturnRValue(Pop, rv)
            IN /\ inits' = is4
               /\ directResults' = IF t = 0 THEN Tail(directResults)
                                   ELSE directResults
               /\ stack' = r.stack
               /\ ret' = r.ret
               /\ phase' = AfterReturn(r.ok)
               /\ log' = log \o claimed \o converted \o stored
                             \o <<Event("exit", Top.node, 0)>>
  /\ UNCHANGED <<origType, substType, descriptors, rootInit, rep, allResults,
                 indirectResultAddrs, plans>>

\* What an Initialization holds: what was stored in it or, if it was split,
\* what its sub-initializations hold, in order.
RECURSIVE ContentOf(_, _)
ContentOf(is, init) ==
  LET RECURSIVE From(_)
      From(k) ==
        IF k > Len(is) THEN <<>>
        ELSE (IF is[k].kind = "elt" /\ is[k].parent = init
              THEN ContentOf(is, k) ELSE <<>>) \o From(k + 1)
  IN is[init].content \o From(init + 1)

\* InitValueFromTemporaryResultPlan::finish, line 135, and
\* InitValueFromRValueResultPlan::finish, line 159: finish the sub-plan.
FinishSubPlan ==
  /\ Finishing
  /\ Node.kind \in {"FromTemp", "FromRValue"}
  /\ stack' = Append(stack, FinishFrame(Node.subPlan, Top.subst))
  /\ log' = Append(log, Event("enter", Node.subPlan, 0))
  /\ UNCHANGED <<origType, substType, descriptors, rootInit, rep, allResults,
                 indirectResultAddrs, inits, plans, ret, directResults, phase>>

\* InitValueFromTemporaryResultPlan::finish, lines 136-143.
FinishFromTemporary ==
  /\ phase = "finish" /\ stack # <<>> /\ ret.set
  /\ Node.kind = "FromTemp"
  /\ LET t == Node.temporary
         value == [idx |-> 0, ty |-> "S", conv |-> "none", addr |-> TRUE,
                   temp |-> t]
         held == ContentOf(inits, t)
         r == ReturnRValue(Pop, UsedRValue)
     IN IF ~ret.rv.used
        THEN /\ phase' = "abort"
             /\ UNCHANGED <<inits, stack, ret, log>>
        ELSE /\ inits' = StoreAndFinish(Forward(inits, value), Node.init, held)
             /\ stack' = r.stack
             /\ ret' = r.ret
             /\ phase' = AfterReturn(r.ok)
             /\ log' = log \o StoreEvents(Node.init, Top.node)
                           \o <<Event("exit", Top.node, 0)>>
  /\ UNCHANGED <<origType, substType, descriptors, rootInit, rep, allResults,
                 indirectResultAddrs, plans, directResults>>

\* InitValueFromRValueResultPlan::finish, lines 160-165.
FinishFromRValue ==
  /\ phase = "finish" /\ stack # <<>> /\ ret.set
  /\ Node.kind = "FromRValue"
  /\ LET r == ReturnRValue(Pop, UsedRValue)
     IN /\ inits' = StoreAndFinish(inits, Node.init,
                                   getAsSingleValue(ret.rv))
        /\ stack' = r.stack
        /\ ret' = r.ret
        /\ phase' = AfterReturn(r.ok)
  /\ log' = log \o StoreEvents(Node.init, Top.node)
                \o <<Event("exit", Top.node, 0)>>
  /\ UNCHANGED <<origType, substType, descriptors, rootInit, rep, allResults,
                 indirectResultAddrs, plans, directResults>>

InTupleFinish == Node.kind \in {"TupleRValue", "TupleInit"}

\* FinishElementAt going through the elements from the last to the first.
FinishElementAtReversed(i) == Len(Node.eltPlans) - i + 1

\* The element the loops of the tuple plans' finish take at their step i
\* (lines 193 and 236 go through the elements in order).
FinishElementAt(i) == i

\* TupleRValueResultPlan::finish, lines 193-195, and
\* TupleInitializationResultPlan::finish, lines 236-238: the loop finishes the
\* next element plan against the element's substituted type.
FinishElement ==
  /\ Finishing
  /\ InTupleFinish
  /\ ~ElementsDone(Top.i, Len(Top.subst.elts))
  /\ LET e == FinishElementAt(Top.i)
     IN /\ stack' = Append(stack, FinishFrame(Node.eltPlans[e],
                                              Top.subst.elts[e]))
        /\ log' = Append(log, Event("enter", Node.eltPlans[e], 0))
  /\ UNCHANGED <<origType, substType, descriptors, rootInit, rep, allResults,
                 indirectResultAddrs, inits, plans, ret, directResults, phase>>

\* TupleRValueResultPlan::finish, line 199, and
\* TupleInitializationResultPlan::finish, lines 242-244.
FinishTupleReturn ==
  /\ Finishing
  /\ InTupleFinish
  /\ ElementsDone(Top.i, Len(Top.subst.elts))
  /\ LET init == Node.init
         rv == IF Node.kind = "TupleRValue" THEN Top.rv ELSE UsedRValue
         r == ReturnRValue(Pop, rv)
     IN /\ inits' = IF Node.kind = "TupleInit"
                    THEN finishInitialization(inits, init) ELSE inits
        /\ log' = log \o (IF Node.kind = "TupleInit"
                           THEN <<Event("finishInit", init, Top.node)>>
                           ELSE <<>>)
                      \o <<Event("exit", Top.node, 0)>>
        /\ stack' = r.stack
        /\ ret' = r.ret
        /\ phase' = AfterReturn(r.ok)
  /\ UNCHANGED <<origType, substType, descriptors, rootInit, rep, allResults,
                 indirectResultAddrs, plans, directResults>>

\* The root finish returns its RValue to the caller.
FinishReturn ==
  /\ phase = "finish" /\ stack = <<>> /\ ret.set
  /\ phase' = "done"
  /\ UNCHANGED <<origType, substType, descriptors, rootInit, rep, allResults,
                 indirectResultAddrs, inits, plans, stack, ret, directResults,
                 log>>

FinishNext ==
  \/ FinishInPlace
  \/ FinishScalar
  \/ FinishSubPlan
  \/ FinishFromTemporary
  \/ FinishFromRValue
  \/ FinishElement
  \/ FinishTupleReturn
  \/ FinishReturn

Next == BuildNext \/ EmitCall \/ FinishNext

Spec == Init /\ [][Next]_vars

-----------------------------------------------------------------------------
\* Inputs that break the contract of build and finish: a substituted type
\* that does not have the tuple structure of the pattern, fewer descriptors
\* than leaves, fewer direct results than direct descriptors.  Where the code
\* then reads past the end of an array or casts a type to what it is not, a
\* build with assertions aborts and a build without them has undefined
\* behaviour: the run ends in "abort" or in "undefined".

\* The substituted type has the tuple structure of the pattern.
RECURSIVE Fits(_, _)
Fits(o, s) ==
  ~o.tup \/ /\ s.tup
            /\ Len(s.elts) = Len(o.elts)
            /\ \A i \in 1..Len(o.elts) : Fits(o.elts[i], s.elts[i])

Outcomes == {"abort", "undefined"}

InitDefect ==
  \E o \in Patterns : \E s \in TypesUpTo(MaxNodes) \cup SubstsOf(o) :
    \E n \in 0..NumLeaves(o) : \E ds \in [1..n -> Descriptors] :
      \E ri \in {0, 1} : \E r \in FunctionReps :
        InitOf(o, s, ds, ri, r)

\* build, line 262: cast<TupleType> of a substituted type that is no tuple.
BuildCastNonTuple ==
  /\ Building
  /\ Top.fn = "build" /\ Destructures(Top.orig, Top.subst) /\ ~Top.subst.tup
  /\ \E outcome \in Outcomes : phase' = outcome
  /\ UNCHANGED <<origType, substType, descriptors, rootInit, rep, allResults,
                 indirectResultAddrs, inits, plans, stack, ret, directResults,
                 log>>

\* build, line 266: allResults.front() of an empty allResults.
BuildLeafEmptyQueue ==
  /\ Building
  /\ Top.fn = "build" /\ ~Destructures(Top.orig, Top.subst)
  /\ allResults = <<>>
  /\ \E outcome \in Outcomes : phase' = outcome
  /\ UNCHANGED <<origType, substType, descriptors, rootInit, rep, allResults,
                 indirectResultAddrs, inits, plans, stack, ret, directResults,
                 log>>

\* Lines 180 and 225: getTupleElementType(i) of a pattern that has no
\* element i.
ConstructorElementOutOfRange ==
  /\ Building
  /\ InConstructor
  /\ Top.i <= Len(Top.subst.elts)
  /\ ElementAt(Top.i) > Len(Top.orig.elts)
  /\ \E outcome \in Outcomes : phase' = outcome
  /\ UNCHANGED <<origType, substType, descriptors, rootInit, rep, allResults,
                 indirectResultAddrs, inits, plans, stack, ret, directResults,
                 log>>

\* The direct-results list lacks its last value.
EmitCallMissing ==
  /\ ResultsOfKind(Len(descriptors), FALSE) # <<>>
  /\ EmitCallWith(1)

\* ScalarResultPlan::finish, line 82: directResults.front() of an empty
\* directResults.
FinishScalarEmptyCursor ==
  /\ Finishing
  /\ Node.kind = "Scalar" /\ Node.temporary = 0
  /\ directResults = <<>>
  /\ \E outcome \in Outcomes : phase' = outcome
  /\ UNCHANGED <<origType, substType, descriptors, rootInit, rep, allResults,
                 indirectResultAddrs, inits, plans, stack, ret, directResults,
                 log>>

NextDefect ==
  \/ Next
  \/ BuildCastNonTuple
  \/ BuildLeafEmptyQueue
  \/ ConstructorElementOutOfRange
  \/ EmitCallMissing
  \/ FinishScalarEmptyCursor

SpecDefect == InitDefect /\ [][NextDefect]_vars

-----------------------------------------------------------------------------
\* Properties.

\* The places in the log of the calls ev.
Calls(ev) == {i \in DOMAIN log : log[i].ev = ev}

\* The plan node built for leaf k of the pattern, 0 if there is none yet.
LeafNodes(k) == {n \in DOMAIN plans : plans[n].leaf = k}

DirectCount == Len(ResultsOfKind(Len(descriptors), FALSE))

Built == phase \in {"built", "finish", "done"}

AtLeafBuild ==
  phase = "build" /\ stack # <<>> /\ ~ret.set /\ Top.fn = "build"
    /\ ~Top.orig.tup

AtDirectClaim ==
  phase = "finish" /\ stack # <<>> /\ ~ret.set /\ Node.kind = "Scalar"
    /\ Node.temporary = 0

\* C1: build of a pattern of K leaves on K descriptors consumes exactly the K
\* descriptors and never reads an empty queue; finish on one value per direct
\* descriptor consumes exactly those values and never reads an empty cursor;
\* and nothing stops build or finish before the root finish has returned.
C1_Balance ==
  /\ AtLeafBuild => allResults # <<>>
  /\ Built => /\ allResults = <<>>
              /\ Cardinality(Calls("pop")) = NumLeaves(origType)
  /\ AtDirectClaim => directResults # <<>>
  /\ phase = "done" => /\ directResults = <<>>
                       /\ Cardinality(Calls("take")) = DirectCount
  /\ phase # "done" => ENABLED Next

C1_Witness ==
  /\ phase = "done"
  /\ rootInit = 1
  /\ NumLeaves(origType) = 2
  /\ descriptors[1].indirect /\ ~descriptors[2].indirect
  /\ allResults = <<>> /\ directResults = <<>>
  /\ Cardinality(Calls("take")) = 1

Destinations == {a \in DOMAIN inits : inits[a].kind \in {"dest", "elt"}}

\* C2: no destination (the root's, one made by a split, a leaf's) is ever
\* finished twice, and when the root finish has returned every one of them has
\* been finished once, also where emitOrigToSubstValue emitted into it.
C2_FinalizedOnce ==
  /\ \A a \in Destinations : inits[a].finished <= 1
  /\ phase = "done" => \A a \in Destinations : inits[a].finished = 1

C2_Witness ==
  /\ phase = "done"
  /\ Calls("emitInto") # {}
  /\ Calls("copy") # {}
  /\ \E a \in Destinations : inits[a].kind = "elt" /\ inits[a].finished = 1
  /\ inits[1].kind = "dest" /\ inits[1].finished = 1

\* The places in the log where result k is claimed by a plan node.
ClaimsOf(k) == {i \in Calls("take") \cup Calls("claim") : log[i].b = k}

\* C3: a value is never claimed twice; what was taken out of a temporary is
\* never still under that temporary's cleanup; and when the root finish has
\* returned, every direct result and the content of every temporary passed as
\* an indirect result has been claimed by exactly one node, the node of its
\* leaf.
C3_ClaimedOnce ==
  /\ \A k \in 1..Len(descriptors) : Cardinality(ClaimsOf(k)) <= 1
  /\ \A t \in DOMAIN inits : ~(inits[t].taken /\ inits[t].cleanup = "active")
  /\ phase = "done" =>
       \A k \in 1..Len(descriptors) :
         \A n \in LeafNodes(k) :
           IF plans[n].kind = "Scalar"
           THEN /\ Cardinality(ClaimsOf(k)) = 1
                /\ \A i \in ClaimsOf(k) : log[i].a = n
           ELSE ClaimsOf(k) = {}

C3_Witness ==
  /\ phase = "done"
  /\ Calls("take") # {}
  /\ \E t \in DOMAIN inits :
       /\ inits[t].kind = "temp"
       /\ t \in {indirectResultAddrs[i] : i \in DOMAIN indirectResultAddrs}
       /\ inits[t].taken /\ inits[t].cleanup = "dead"

\* The calls ev of the log, in order.
CallSeq(ev) == LET Is(e) == e.ev = ev IN SelectSeq(log, Is)

IndirectLeaves == ResultsOfKind(Len(descriptors), TRUE)

DirectLeaves == ResultsOfKind(Len(descriptors), FALSE)

\* C4: the i-th address appended to indirectResultAddrs is appended for the
\* i-th indirect leaf of the flattened pattern, and the j-th direct result is
\* taken by the plan node of the j-th direct leaf.
C4_Order ==
  /\ LET addrs == CallSeq("addr")
     IN /\ Len(addrs) = Len(indirectResultAddrs)
        /\ \A i \in DOMAIN addrs :
             /\ i <= Len(IndirectLeaves)
             /\ addrs[i].b = IndirectLeaves[i]
             /\ addrs[i].a = indirectResultAddrs[i]
  /\ LET takes == CallSeq("take")
     IN \A j \in DOMAIN takes :
          /\ j <= Len(DirectLeaves)
          /\ plans[takes[j].a].leaf = DirectLeaves[j]
          /\ takes[j].b = DirectLeaves[j]

C4_Witness ==
  /\ phase = "done"
  /\ NumLeaves(origType) = 2
  /\ ~descriptors[1].indirect /\ descriptors[2].indirect
  /\ Len(indirectResultAddrs) = 1
  /\ Cardinality(Calls("take")) = 1
  /\ \E n \in DOMAIN plans : plans[n].kind = "FromTemp"

\* C5: finish of a plan built with no destination returns an RValue that is
\* not used and holds one value per leaf of the pattern, in leaf order.
C5_NoDestination ==
  (phase = "done" /\ rootInit = 0) =>
    /\ ~ret.rv.used
    /\ Len(ret.rv.vals) = NumLeaves(origType)
    /\ \A k \in DOMAIN ret.rv.vals : ret.rv.vals[k].idx = k

C5_Witness ==
  /\ phase = "done" /\ rootInit = 0
  /\ NumLeaves(origType) = 2
  /\ Len(ret.rv.vals) = 2
  /\ ret.rv.vals[1].conv = "reabstract"
  /\ descriptors[2].indirect

\* The descriptor build consumed for leaf k.
DescriptorOf(k) ==
  descriptors[log[CHOOSE i \in Calls("pop") : log[i].b = k].a]

FastPath(n) ==
  /\ DescriptorOf(plans[n].leaf).indirect
  /\ plans[n].init # 0
  /\ inits[plans[n].init].addr \in Reps
  /\ ~hasAbstractionDifference(inits[plans[n].init].addr,
                               DescriptorOf(plans[n].leaf).ty)

\* The calls made under plan node n.
CallsBy(n, evs) == {i \in DOMAIN log : log[i].ev \in evs /\ log[i].a = n}

\* C6: the node of a leaf is an InPlace node exactly when the descriptor is
\* indirect, the destination gives an address and the address has no
\* abstraction difference from the descriptor's type, and a Scalar node
\* otherwise; for an InPlace node no temporary is made, the one address
\* appended is the destination's, and its finish only finishes the
\* destination.
C6_FastPath ==
  \A n \in DOMAIN plans :
    plans[n].leaf # 0 =>
      /\ plans[n].kind = (IF FastPath(n) THEN "InPlace" ELSE "Scalar")
      /\ plans[n].kind = "InPlace" =>
           /\ plans[n].temporary = 0
           /\ {i \in Calls("temp") : log[i].b = plans[n].leaf} = {}
           /\ \E i \in Calls("addr") :
                /\ log[i].a = plans[n].init
                /\ \A j \in Calls("addr") :
                     log[j].b = plans[n].leaf => j = i
           /\ CallsBy(n, {"take", "claim", "bridge", "reabstract"}) = {}
           /\ {i \in Calls("copy") \cup Calls("emitInto") :
                 log[i].a = plans[n].init} = {}
           /\ \A p \in CallsBy(n, {"enter"}) :
                p < Len(log) =>
                  /\ log[p + 1] = Event("finishInit", plans[n].init, n)
                  /\ log[p + 2] = Event("exit", n, 0)

C6_Witness ==
  /\ phase = "done"
  /\ \E n \in DOMAIN plans : plans[n].kind = "InPlace" /\ FastPath(n)
  /\ \E n \in DOMAIN plans :
       /\ plans[n].kind = "Scalar"
       /\ plans[n].init # 0
       /\ inits[plans[n].init].addr = "S"
       /\ DescriptorOf(plans[n].leaf) = [indirect |-> TRUE, ty |-> "O"]

\* Some call ev on a comes before place p of the log.
Before(p, ev, a) == \E q \in 1..(p - 1) : log[q].ev = ev /\ log[q].a = a

\* The places where plan node n finishes its own initialization.
OwnFinish(n) ==
  {p \in Calls("finishInit") : log[p].a = plans[n].init /\ log[p].b = n}

\* The places where plan node n copies into its initialization.
OwnCopy(n) ==
  {p \in Calls("copy") : log[p].a = plans[n].init /\ log[p].b = n}

\* C7: a TupleInit node finishes its destination after every element plan
\* has finished and every sub-destination is finished; a FromTemp node copies
\* out of its temporary after the sub-plan has finished and the temporary is
\* finished; a FromRValue node copies after the sub-plan has finished; the
\* copy comes before the finish of the destination, and each of these nodes
\* has finished its destination when its finish returns.
C7_BottomUp ==
  \A n \in DOMAIN plans :
    /\ plans[n].kind = "TupleInit" =>
         \A p \in OwnFinish(n) :
           /\ \A k \in DOMAIN plans[n].eltPlans :
                Before(p, "exit", plans[n].eltPlans[k])
           /\ \A k \in DOMAIN plans[n].eltInits :
                Before(p, "finishInit", plans[n].eltInits[k])
    /\ plans[n].kind \in {"FromTemp", "FromRValue"} =>
         /\ \A p \in OwnCopy(n) : Before(p, "exit", plans[n].subPlan)
         /\ \A p \in OwnFinish(n) : \E q \in OwnCopy(n) : q < p
    /\ plans[n].kind = "FromTemp" =>
         \A p \in OwnCopy(n) : Before(p, "finishInit", plans[n].temporary)
    /\ plans[n].kind \in {"TupleInit", "FromTemp", "FromRValue"} =>
         \A p \in CallsBy(n, {"exit"}) : \E q \in OwnFinish(n) : q < p

C7_Witness ==
  /\ phase = "done"
  /\ \E n \in DOMAIN plans :
       /\ plans[n].kind = "FromTemp"
       /\ OwnCopy(n) # {} /\ OwnFinish(n) # {}
       /\ plans[plans[n].subPlan].kind = "TupleInit"
       /\ Len(plans[plans[n].subPlan].eltInits) = 2
       /\ OwnFinish(plans[n].subPlan) # {}

\* What isAddressOnly answered when buildForTuple asked for init's tuple.
AddressOnlyAnswer(init) ==
  {log[i].b : i \in {j \in Calls("isAddressOnly") : log[j].a = init}}

\* C8: the plan buildForTuple makes for a tuple is a TupleRValue when there is
\* no destination, a TupleInit when the destination splits, a FromTemp whose
\* sub-plan is built against its one temporary when it does not split and the
\* tuple is address-only, a FromRValue whose sub-plan is a TupleRValue with no
\* destination when it does not split and the tuple is loadable.
C8_TupleCases ==
  /\ \A n \in DOMAIN plans :
       /\ plans[n].kind = "TupleRValue" => plans[n].init = 0
       /\ plans[n].kind = "TupleInit" =>
            plans[n].init # 0 /\ inits[plans[n].init].canSplit = "yes"
       /\ plans[n].kind = "FromTemp" =>
            /\ plans[n].init # 0 /\ inits[plans[n].init].canSplit = "no"
            /\ AddressOnlyAnswer(plans[n].init) = {1}
            /\ inits[plans[n].temporary].kind = "temp"
            /\ plans[plans[n].subPlan].init = plans[n].temporary
            /\ plans[n].temporary \notin
                 {indirectResultAddrs[i] : i \in DOMAIN indirectResultAddrs}
       /\ plans[n].kind = "FromRValue" =>
            /\ plans[n].init # 0 /\ inits[plans[n].init].canSplit = "no"
            /\ AddressOnlyAnswer(plans[n].init) = {0}
            /\ plans[plans[n].subPlan].kind = "TupleRValue"
            /\ plans[plans[n].subPlan].init = 0
  /\ (phase = "built" /\ origType.tup) =>
       plans[ret.plan].kind =
         (IF rootInit = 0 THEN "TupleRValue"
          ELSE IF inits[rootInit].canSplit = "yes" THEN "TupleInit"
          ELSE IF AddressOnlyAnswer(rootInit) = {1} THEN "FromTemp"
          ELSE "FromRValue")

C8_Witness ==
  /\ phase = "built"
  /\ origType.tup
  /\ rootInit = 1
  /\ inits[1].canSplit = "no"
  /\ AddressOnlyAnswer(1) = {1}
  /\ plans[ret.plan].kind = "FromTemp"
  /\ plans[plans[ret.plan].subPlan].kind = "TupleInit"

\* C9: for a non-tuple result with a destination and a descriptor of the
\* substituted type, after build and finish the destination holds the
\* produced value as produced, has been finished once, and nothing was
\* bridged or reabstracted.
C9_RoundTrip ==
  (phase = "done" /\ ~origType.tup /\ rootInit = 1
     /\ descriptors[1].ty = "S") =>
    /\ inits[1].content = <<Produced(1)>>
    /\ inits[1].finished = 1
    /\ Calls("bridge") \cup Calls("reabstract") \cup Calls("emitInto") = {}

C9_Witness ==
  /\ phase = "done" /\ ~origType.tup /\ rootInit = 1
  /\ descriptors[1] = [indirect |-> FALSE, ty |-> "S"]
  /\ inits[1].content = <<Produced(1)>>
  /\ Calls("take") # {}

\* The direct results the finish was given: those taken and those left.
ValuesGiven == Cardinality(Calls("take")) + Len(directResults)

\* C10: on a pattern whose substituted type does not have its tuple
\* structure, or with fewer descriptors than the pattern has leaves, build
\* returns no plan; with fewer direct results than direct descriptors, finish
\* returns no RValue.
C10_FailFast ==
  /\ ~Fits(origType, substType) => ~Built
  /\ Len(descriptors) < NumLeaves(origType) => ~Built
  /\ (phase = "done" /\ Fits(origType, substType)) =>
       ValuesGiven >= DirectCount

\* The temporaries emitted so far.
Temporaries(is) == {a \in DOMAIN is : is[a].kind = "temp"}

\* The finishInitialization calls made so far, per initialization.
Finished(is) == [a \in DOMAIN is |-> is[a].finished]

\* C11: a step that emits a temporary, appends to indirectResultAddrs or
\* pops allResults is a step of build, so no step of finish does any of
\* these; and a step of build leaves directResults alone and finishes no
\* initialization.
C11_PhaseSeparation ==
  [][ /\ (\/ Temporaries(inits') # Temporaries(inits)
          \/ indirectResultAddrs' # indirectResultAddrs
          \/ allResults' # allResults) => phase = "build"
      /\ phase = "build" =>
           /\ directResults' = directResults
           /\ \A a \in DOMAIN inits :
                Finished(inits')[a] = Finished(inits)[a] ]_vars

\* The finish of a plan with a temporary of a leaf, a temporary of a whole
\* tuple and a direct result has returned.
C11_Witness ==
  /\ phase = "done"
  /\ \E n \in DOMAIN plans : plans[n].kind = "Scalar" /\ plans[n].temporary # 0
  /\ \E n \in DOMAIN plans : plans[n].kind = "FromTemp"
  /\ directResults = <<>> /\ DirectCount > 0

\* The tuple nesting depth of a type, and the greatest of a list of types.
RECURSIVE Depth(_), DepthOfElements(_)
Depth(t) == IF t.tup THEN 1 + DepthOfElements(t.elts) ELSE 0

DepthOfElements(es) ==
  IF es = <<>> THEN 0
  ELSE LET h == Depth(Head(es))
           t == DepthOfElements(Tail(es))
       IN IF h > t THEN h ELSE t

\* The constructors running, each inside the one below it on the stack.
ConstructorFrames ==
  {k \in DOMAIN stack : stack[k].fn \in {"TupleRValueResultPlan",
                                          "TupleInitializationResultPlan"}}

\* C12: build returns; while it runs, the constructors nested in one another
\* are at most as many as the pattern's tuples are nested, and the calls of
\* build, buildForTuple and constructors in progress at most twice that many
\* and one, also where buildForTuple calls itself on a temporary for the
\* same pattern and the same substituted type.
C12_Termination ==
  /\ <>(phase = "built")
  /\ [](/\ Cardinality(ConstructorFrames) <= Depth(origType)
        /\ Len(stack) <= 2 * Depth(origType) + 1)

\* build has returned a plan made by buildForTuple calling itself on a
\* temporary, for a tuple nested in a tuple.
C12_Witness ==
  /\ phase = "built"
  /\ \E n \in DOMAIN plans : plans[n].kind = "FromTemp"
  /\ Depth(origType) >= 2

\* The descriptors build has popped so far.
Consumed == Len(descriptors) - Len(allResults)

\* The addresses appended so far for leaf k.
AddrsOf(k) == {i \in Calls("addr") : log[i].b = k}

\* The leaves whose descriptor build has popped, in order.
LeafPops == CallSeq("pop")

IsPrefix(s, t) == Len(s) <= Len(t) /\ SubSeq(t, 1, Len(s)) = s

\* C13: at every point indirectResultAddrs has one entry per indirect
\* descriptor popped so far: none for a direct one, for an indirect one the
\* address of the initialization of an InPlace node or else a temporary made
\* for that leaf; a temporary made for a whole tuple is never in it; a Scalar
\* node has a temporary exactly if its descriptor is indirect; and a step
\* only ever appends to the list.
C13_AddressList ==
  /\ [](/\ Len(indirectResultAddrs) = Len(ResultsOfKind(Consumed, TRUE))
        /\ Len(LeafPops) = Consumed
        /\ \A p \in DOMAIN LeafPops :
             LET k == LeafPops[p].b
                 d == descriptors[LeafPops[p].a]
             IN /\ Cardinality(AddrsOf(k)) = (IF d.indirect THEN 1 ELSE 0)
                /\ \A n \in LeafNodes(k) : \A i \in AddrsOf(k) :
                     log[i].a = (IF plans[n].kind = "InPlace"
                                 THEN plans[n].init ELSE plans[n].temporary)
                /\ \A n \in LeafNodes(k) :
                     plans[n].kind = "Scalar" =>
                       (plans[n].temporary # 0 <=> d.indirect)
        /\ \A i \in DOMAIN indirectResultAddrs :
             /\ \E j \in Calls("addr") : log[j].a = indirectResultAddrs[i]
             /\ \A j \in Calls("temp") :
                  log[j].b = 0 => log[j].a # indirectResultAddrs[i])
  /\ [][IsPrefix(indirectResultAddrs, indirectResultAddrs')]_vars

\* build has returned a FromTemp plan for a tuple of a direct result and an
\* indirect one.
C13_Witness ==
  /\ phase = "built"
  /\ \E n \in DOMAIN plans : plans[n].kind = "FromTemp"
  /\ Len(indirectResultAddrs) = 1
  /\ Len(descriptors) = 2

\* The plan whose finish has just returned to its caller, 0 if none has: the
\* root plan, or the sub-plan of the FromTemp or FromRValue node on top.
Returned ==
  IF phase \notin {"finish", "done"} \/ ~ret.set THEN 0
  ELSE IF stack = <<>> THEN Len(plans)
  ELSE Node.subPlan

\* C14: no assertion of a finish fails (the sub-plan of a FromTemp node and
\* every element plan of a TupleInit node return a used RValue), and the
\* RValue a plan's finish returns is used exactly if the plan was built
\* with an initialization.
C14_UsedRValue ==
  /\ phase # "abort"
  /\ Returned # 0 => (ret.rv.used <=> plans[Returned].init # 0)

\* The finish of a FromTemp plan around a TupleInit plan with a Scalar
\* element has returned.
C14_Witness ==
  /\ phase = "done"
  /\ plans[Returned].kind = "FromTemp"
  /\ plans[plans[Returned].subPlan].kind = "TupleInit"
  /\ \E n \in DOMAIN plans : plans[n].kind = "Scalar" /\ plans[n].init # 0
  /\ ret.rv.used

\* The values stored in initialization a so far, by copyOrInitValueInto or by
\* emitOrigToSubstValue emitting into it.
Deposits(a) == {i \in Calls("copy") \cup Calls("emitInto") : log[i].a = a}

\* The Scalar nodes with an initialization whose finish has returned.
ScalarsDone ==
  {n \in DOMAIN plans : /\ plans[n].kind = "Scalar"
                        /\ plans[n].init # 0
                        /\ CallsBy(n, {"exit"}) # {}}

\* C15: a Scalar node with an initialization either had emitOrigToSubstValue
\* emit the value into it, and then made no copyOrInitValueInto, or made
\* exactly one copyOrInitValueInto followed at once by finishInitialization;
\* no initialization gets a value twice; and a value emitted in context was
\* converted by emitOrigToSubstValue, never by the bridging.
C15_NoDoubleDeposit ==
  /\ \A a \in DOMAIN inits : Cardinality(Deposits(a)) <= 1
  /\ \A n \in ScalarsDone :
       LET a == plans[n].init
           emits == {i \in Calls("emitInto") : log[i].a = a}
       IN /\ Cardinality(Deposits(a)) = 1
          /\ emits # {} => /\ OwnCopy(n) = {}
                           /\ CallsBy(n, {"reabstract"}) # {}
                           /\ CallsBy(n, {"bridge"}) = {}
          /\ \A p \in OwnCopy(n) :
               /\ p < Len(log)
               /\ log[p + 1] = Event("finishInit", a, n)

\* A Scalar finish whose value emitOrigToSubstValue emitted in context has
\* returned, and so has one that copied the value emitOrigToSubstValue
\* returned.
C15_Witness ==
  /\ \E n \in ScalarsDone :
       \E i \in Calls("emitInto") : log[i].a = plans[n].init
  /\ \E n \in ScalarsDone :
       OwnCopy(n) # {} /\ CallsBy(n, {"reabstract"}) # {}

\* The Scalar nodes whose finish has returned.
ScalarsFinished ==
  {n \in DOMAIN plans : plans[n].kind = "Scalar" /\ CallsBy(n, {"exit"}) # {}}

\* C16: a Scalar finish converts its value at most once: not at all if the
\* value's type has no abstraction difference from the lowered substituted
\* type; otherwise by the bridging alone if the representation is a
\* C-language one, and by emitOrigToSubstValue alone if it is native, and
\* what emitOrigToSubstValue emits in context it emits into the node's
\* initialization.
C16_TransformSelection ==
  \A n \in ScalarsFinished :
    LET valueTy == DescriptorOf(plans[n].leaf).ty
        bridged == CallsBy(n, {"bridge"})
        reabstracted == CallsBy(n, {"reabstract"})
    IN /\ Cardinality(bridged \cup reabstracted) <= 1
       /\ ~hasAbstractionDifference(valueTy, "S") =>
            bridged \cup reabstracted = {}
       /\ (hasAbstractionDifference(valueTy, "S") /\ rep = "c") =>
            bridged # {} /\ reabstracted = {}
       /\ (hasAbstractionDifference(valueTy, "S") /\ rep = "native") =>
            /\ bridged = {} /\ reabstracted # {}
            /\ \A p \in reabstracted :
                 log[p + 1].ev = "emitInto" =>
                   /\ plans[n].init # 0
                   /\ log[p + 1].a = plans[n].init

\* Under a C-language representation a Scalar finish has bridged a value
\* and another has left its value as it was.
C16_Witness ==
  /\ rep = "c"
  /\ \E n \in ScalarsFinished : CallsBy(n, {"bridge"}) # {}
  /\ \E n \in ScalarsFinished :
       CallsBy(n, {"bridge", "reabstract"}) = {}

\* The plan nodes in the order in which their finish was entered, and in the
\* order in which it returned.
Entered == [p \in DOMAIN CallSeq("enter") |-> CallSeq("enter")[p].a]

Exited == [p \in DOMAIN CallSeq("exit") |-> CallSeq("exit")[p].a]

\* The plan nodes in the order in which build made them: the elements of a
\* tuple from left to right, each before the node that holds it.
Created == [n \in DOMAIN plans |-> n]

\* The leaves of the plan nodes in s, in the order of s.
LeavesOf(s) ==
  LET IsLeaf(n) == plans[n].leaf # 0
      nodes == SelectSeq(s, IsLeaf)
  IN [p \in DOMAIN nodes |-> plans[nodes[p]].leaf]

\* C17: no plan node's finish is entered twice; the finishes return in the
\* order in which build made the nodes, so that the leaves are finished from
\* left to right; and when the root finish has returned, the finish of
\* every node has been entered once and has returned once.
C17_SingleTraversal ==
  /\ \A p, q \in DOMAIN Entered : Entered[p] = Entered[q] => p = q
  /\ IsPrefix(Exited, Created)
  /\ \A p \in DOMAIN LeavesOf(Exited) : LeavesOf(Exited)[p] = p
  /\ phase = "done" =>
       /\ Exited = Created
       /\ {Entered[p] : p \in DOMAIN Entered} = DOMAIN plans

\* The finish of a plan of four nodes or more, with two leaves under a tuple
\* node, has returned.
C17_Witness ==
  /\ phase = "done"
  /\ Len(plans) >= 4
  /\ \E n \in DOMAIN plans : Len(plans[n].eltPlans) = 2

\* The tuples of a type, the type itself included.
RECURSIVE TuplesIn(_), TuplesInElements(_)
TuplesIn(t) == IF t.tup THEN 1 + TuplesInElements(t.elts) ELSE 0

TuplesInElements(es) ==
  IF es = <<>> THEN 0 ELSE TuplesIn(Head(es)) + TuplesInElements(Tail(es))

\* The plan nodes that hold element plans.
TupleNodes == {n \in DOMAIN plans : plans[n].kind \in {"TupleRValue", "TupleInit"}}

\* The plan nodes made for one result.
ResultNodes == {n \in DOMAIN plans : plans[n].kind \in {"InPlace", "Scalar"}}

\* C18: build runs a constructor over elements only for a tuple pattern;
\* and when it has returned, it has made one InPlace or Scalar node and
\* popped one descriptor per leaf of the pattern, and one node with element
\* plans per tuple of the pattern, whatever tuples the substituted type has
\* at the pattern's leaves.
C18_PatternDispatch ==
  /\ phase = "build" => \A k \in ConstructorFrames : stack[k].orig.tup
  /\ Built =>
       /\ Consumed = NumLeaves(origType)
       /\ Cardinality(Calls("pop")) = NumLeaves(origType)
       /\ Cardinality(ResultNodes) = NumLeaves(origType)
       /\ \A n \in ResultNodes : plans[n].leaf \in 1..NumLeaves(origType)
       /\ \A n, m \in ResultNodes : plans[n].leaf = plans[m].leaf => n = m
       /\ Cardinality(TupleNodes) = TuplesIn(origType)
       /\ ~origType.tup => plans[Len(plans)].kind \in {"InPlace", "Scalar"}

\* build has returned on a tuple pattern whose leaf has a tuple as its
\* substituted type.
C18_Witness ==
  /\ phase = "built"
  /\ origType.tup
  /\ NumLeaves(origType) = 1
  /\ NumLeaves(substType) = 2
  /\ TuplesIn(substType) > TuplesIn(origType)

====
